---- MODULE Spec2Model ----
(***************************************************************************)
(* Model of relay-compiler's build_project driver                          *)
(* (compiler/crates/relay-compiler/src/build_project/mod.rs).              *)
(*                                                                         *)
(* Every project runs one build_project call.  The stages the driver       *)
(* calls (build_schema, build_ir, validate, apply_transforms,              *)
(* generate_artifacts, write_artifacts), Program, Timer and                *)
(* BuildProjectError live in other files; they are modelled by their       *)
(* contracts, with their outcomes as nondeterministic inputs.              *)
(***************************************************************************)
EXTENDS Integers, Sequences, FiniteSets, TLC

\* ------------------------------------------------------------------ bounds
MaxBatch == 2      \* longest Vec<ValidationError> a stage returns
MaxDefs == 2       \* most definitions in a project's IR
NumLocations == 2  \* distinct abstract source locations

Projects == {"a", "b"}
Locations == 1..NumLocations
BaseFragments == {"BaseFrag"}

\* ---------------------------------------------------------------- results
Ok(v) == [ok |-> TRUE, val |-> v]
Err(e) == [ok |-> FALSE, err |-> e]
Unit == <<>>
NotReturned == Err([kind |-> "NotReturned", errors |-> <<>>])

\* ------------------------------------------------- validation errors
\* A ValidationError carries an abstract source reference (a location key).
ValidationError == [message : {"invalid"}, location : Locations]

RECURSIVE SeqsUpTo(_, _)
SeqsUpTo(S, n) ==
    IF n = 0 THEN {<<>>}
    ELSE LET shorter == SeqsUpTo(S, n - 1)
         IN shorter \cup {Append(s, x) : s \in shorter, x \in S}

\* The non-empty batches a failing build_ir or validate can return.
ErrorBatches == SeqsUpTo(ValidationError, MaxBatch) \ {<<>>}

\* The source text set: location key -> literal text.
Sources == [l \in Locations |-> <<"text", l>>]

\* ValidationError::with_sources: attach the literal source text.
with_sources(error, sources) ==
    [error |-> error, source |-> sources[error.location]]

\* Mutant: the last error of the batch is passed on unresolved.
RECURSIVE MapAllButLast(_, _)
MapAllButLast(errors, sources) ==
    IF errors = <<>> THEN <<>>
    ELSE IF Len(errors) = 1 THEN errors
    ELSE <<with_sources(Head(errors), sources)>>
             \o MapAllButLast(Tail(errors), sources)

\* Mutant: the batch is collected back to front.
RECURSIVE MapReversed(_, _)
MapReversed(errors, sources) ==
    IF errors = <<>> THEN <<>>
    ELSE MapReversed(Tail(errors), sources)
             \o <<with_sources(Head(errors), sources)>>

\* Iterator map + collect over a Vec, front to back.
RECURSIVE MapWithSources(_, _)
MapWithSources(errors, sources) ==
    IF errors = <<>> THEN <<>>
    ELSE <<with_sources(Head(errors), sources)>>
             \o MapWithSources(Tail(errors), sources)

\* Mutant: the batch is wrapped in the variant of another stage.
add_error_sources_wrong_variant(res, sources) ==
    IF res.ok THEN res
    ELSE Err([kind |-> "ArtifactWriteError",
              errors |-> MapWithSources(res.err, sources)])

\* Mutant: the success value is rebuilt and loses its base fragment names.
add_error_sources_rebuilds_ok(res, sources) ==
    IF res.ok
    THEN IF "base_fragment_names" \in DOMAIN res.val
         THEN Ok([res.val EXCEPT !.base_fragment_names = {}])
         ELSE res
    ELSE Err([kind |-> "ValidationErrors",
              errors |-> MapWithSources(res.err, sources)])

\* result.map_err(|errors| BuildProjectError::ValidationErrors { .. })
add_error_sources(res, sources) ==
    IF res.ok THEN res
    ELSE Err([kind |-> "ValidationErrors",
              errors |-> MapWithSources(res.err, sources)])

\* ------------------------------------------------------ stage contracts
\* build_schema: a Schema, or a failure.  The driver binds the value
\* directly, so a failure can only surface as a panic.
SchemaOutcomes == {"Schema", "SchemaBuildError"}

\* build_ir: Ok(BuildIRResult) or Err(Vec<ValidationError>).
BuildIROutcomes ==
    {Ok([ir |-> 1..n, base_fragment_names |-> b]) :
        n \in 0..MaxDefs, b \in SUBSET BaseFragments}
    \cup {Err(batch) : batch \in ErrorBatches}

\* Program::from_definitions: one Program definition per IR definition.
from_definitions(sch, defs) == [schema |-> sch, definitions |-> defs]

\* validate: Ok(()) or Err(Vec<ValidationError>).
ValidateOutcomes(prog) == {Ok(Unit)} \cup {Err(batch) : batch \in ErrorBatches}

document_count(prog) == Cardinality(prog.definitions)

\* apply_transforms: one target Program per output, all derived from the
\* same validated Program.
apply_transforms(prog, base_fragment_names) ==
    [reader |-> prog, normalization |-> prog, operation_text |-> prog]

\* generate_artifacts: the in-memory artifacts of the project, or an error.
ArtifactsOf(p, progs) ==
    {[project |-> p, path |-> d] :
        d \in progs.reader.definitions \cup progs.normalization.definitions
                \cup progs.operation_text.definitions}

GenerateOutcomes(p, progs) ==
    {Ok(ArtifactsOf(p, progs)),
     Err([kind |-> "ArtifactGenerationError", errors |-> <<>>])}

\* write_artifacts: persists all artifacts, or fails having persisted some.
WriteOutcomes(arts) ==
    {[res |-> Ok(Unit), written |-> arts]}
    \cup {[res |-> Err([kind |-> "ArtifactWriteError", errors |-> <<>>]),
           written |-> w] : w \in SUBSET arts}

\* The files durable storage holds before the builds: one stale output per
\* project, left by an earlier build.
PreExisting == {[project |-> p, path |-> 0] : p \in Projects}

\* ------------------------------------------------------------------ state
VARIABLES
    pc,         \* position of each project's build_project call
    schema,     \* local `schema`
    ir,         \* local BuildIRResult { ir, base_fragment_names }
    program,    \* local `program`
    programs,   \* local `programs`
    artifacts,  \* local `artifacts`
    result,     \* value build_project returned
    rawBatch,   \* the Vec<ValidationError> the failing stage returned
    trace,      \* per project: span, call and return events in order
    stdout,     \* lines printed by println!
    disk,       \* durable storage: the files written so far
    builtIR,    \* the BuildIRResult build_ir returned
    running,    \* the build holding the executor thread, "idle" if none;
                \* "threads" when every build has a thread of its own
    startedDuring \* per project: the builds that were suspended in
                \* generation when this build started

vars == <<pc, schema, ir, program, programs, artifacts, result, rawBatch,
          trace, stdout, disk, builtIR, running, startedDuring>>

\* ----------------------------------------------------------------- events
Ev(kind, stage, p, ok, data) ==
    [ev |-> kind, stage |-> stage, project |-> p, ok |-> ok, data |-> data]

Call(stage, p, data) == Ev("call", stage, p, TRUE, data)
Ret(stage, p, ok, data) == Ev("ret", stage, p, ok, data)

\* Timer::start(label): opens the span labelled "<stage> <project>".
TimerStart(tr, stage, p) == Append(tr, Ev("start", stage, p, TRUE, {}))

\* Timer::stop: closes the span.
TimerStop(tr, stage, p) == Append(tr, Ev("stop", stage, p, TRUE, {}))

\* Timer::time(label, f): start, run the closure, stop, return its value.
TimerTime(tr, stage, p, body) ==
    TimerStop(TimerStart(tr, stage, p) \o body, stage, p)

\* ------------------------------------------------------------ the driver
\* Mutant: the transform fan-out is placed before validation.
NextStageTransformsFirst(stage) ==
    CASE stage = "build_schema" -> "build_ir"
      [] stage = "build_ir" -> "build_program"
      [] stage = "build_program" -> "apply_transforms"
      [] stage = "apply_transforms" -> "validate"
      [] stage = "validate" -> "generate_artifacts"
      [] stage = "generate_artifacts" -> "write_artifacts"
      [] stage = "write_artifacts" -> "println"

\* Mutant: the summary follows generation, the write is left out.
NextStageSkipWrite(stage) ==
    CASE stage = "build_schema" -> "build_ir"
      [] stage = "build_ir" -> "build_program"
      [] stage = "build_program" -> "validate"
      [] stage = "validate" -> "apply_transforms"
      [] stage = "apply_transforms" -> "generate_artifacts"
      [] stage = "generate_artifacts" -> "println"
      [] stage = "write_artifacts" -> "println"

\* Mutant: the transforms follow Program construction, validation is
\* left out.
NextStageSkipValidate(stage) ==
    CASE stage = "build_schema" -> "build_ir"
      [] stage = "build_ir" -> "build_program"
      [] stage = "build_program" -> "apply_transforms"
      [] stage = "validate" -> "apply_transforms"
      [] stage = "apply_transforms" -> "generate_artifacts"
      [] stage = "generate_artifacts" -> "write_artifacts"
      [] stage = "write_artifacts" -> "println"

\* Statement order of build_project: the stage that follows each stage.
NextStage(stage) ==
    CASE stage = "build_schema" -> "build_ir"
      [] stage = "build_ir" -> "build_program"
      [] stage = "build_program" -> "validate"
      [] stage = "validate" -> "apply_transforms"
      [] stage = "apply_transforms" -> "generate_artifacts"
      [] stage = "generate_artifacts" -> "write_artifacts"
      [] stage = "write_artifacts" -> "println"

\* Mutants: the `?` is missing after one stage, whose Err is dropped.
TryExcept(missing, p, stage, res) ==
    IF res.ok \/ stage = missing
    THEN /\ pc' = [pc EXCEPT ![p] = NextStage(stage)]
         /\ result' = result
    ELSE /\ pc' = [pc EXCEPT ![p] = "returned"]
         /\ result' = [result EXCEPT ![p] = res]

TryIgnoreBuildIR(p, stage, res) == TryExcept("build_ir", p, stage, res)

TryIgnoreValidate(p, stage, res) == TryExcept("validate", p, stage, res)

TryIgnoreGenerate(p, stage, res) ==
    TryExcept("generate_artifacts", p, stage, res)

TryIgnoreWrite(p, stage, res) == TryExcept("write_artifacts", p, stage, res)

\* Mutant: a failed stage is run again instead of ending the build.
TryRetry(p, stage, res) ==
    IF res.ok
    THEN /\ pc' = [pc EXCEPT ![p] = NextStage(stage)]
         /\ result' = result
    ELSE /\ pc' = [pc EXCEPT ![p] = stage]
         /\ result' = result

\* Mutant: a failure ends every build that is under way, not only its own.
TryAbortAll(p, stage, res) ==
    IF res.ok
    THEN /\ pc' = [pc EXCEPT ![p] = NextStage(stage)]
         /\ result' = result
    ELSE /\ pc' = [q \in Projects |->
                 IF q = p \/ pc[q] \notin {"returned", "panicked"}
                 THEN "returned" ELSE pc[q]]
         /\ result' = [q \in Projects |->
                 IF q = p \/ pc[q] \notin {"returned", "panicked"}
                 THEN res ELSE result[q]]

\* The `?` operator after a stage: continue on Ok, return the Err.
Try(p, stage, res) ==
    IF res.ok
    THEN /\ pc' = [pc EXCEPT ![p] = NextStage(stage)]
         /\ result' = result
    ELSE /\ pc' = [pc EXCEPT ![p] = "returned"]
         /\ result' = [result EXCEPT ![p] = res]

\* Mutant: generation waits for its external work without suspending.
YieldsBlockingGenerate(pos) == pos \in {"returned", "panicked"}

\* Mutant: the driver also suspends between validation and the transforms.
YieldsBeforeTransforms(pos) ==
    pos \in {"apply_transforms", "await_generate", "returned", "panicked"}

\* The positions at which an async build_project gives up its thread: the
\* one .await, and the end of the call.
Yields(pos) == pos \in {"await_generate", "returned", "panicked"}

\* The executor: with a thread per build every build can always step; on
\* one cooperative thread a build steps when the thread is free or its
\* own, and keeps the thread until it yields.
Schedule(p) ==
    IF running = "threads"
    THEN running' = running
    ELSE /\ running \in {"idle", p}
         /\ running' = IF Yields(pc'[p]) THEN "idle" ELSE p

\* The state before any build has started, whatever the executor.
InitBuilds ==
    /\ pc = [p \in Projects |-> "build_schema"]
    /\ schema = [p \in Projects |-> "none"]
    /\ ir = [p \in Projects |-> [ir |-> {}, base_fragment_names |-> {}]]
    /\ program = [p \in Projects |-> from_definitions("none", {})]
    /\ programs = [p \in Projects |->
                      apply_transforms(from_definitions("none", {}), {})]
    /\ artifacts = [p \in Projects |-> {}]
    /\ result = [p \in Projects |-> NotReturned]
    /\ rawBatch = [p \in Projects |-> <<>>]
    /\ trace = [p \in Projects |-> <<>>]
    /\ stdout = <<>>
    /\ disk = PreExisting
    /\ builtIR = [p \in Projects |-> [ir |-> {}, base_fragment_names |-> {}]]
    /\ startedDuring = [p \in Projects |-> {}]

\* Builds scheduled on threads of their own.
Init == InitBuilds /\ running = "threads"

\* Builds scheduled on one cooperative thread.
InitCooperative == InitBuilds /\ running = "idle"

\* let schema = Timer::time("build_schema ..", || build_schema(..));
BuildSchema(p) ==
    /\ pc[p] = "build_schema"
    /\ \E o \in SchemaOutcomes :
        IF o = "Schema"
        THEN /\ trace' = [trace EXCEPT ![p] =
                    TimerTime(@, "build_schema", p,
                        <<Call("build_schema", p, {}),
                          Ret("build_schema", p, TRUE, {})>>)]
             /\ schema' = [schema EXCEPT ![p] = o]
             /\ pc' = [pc EXCEPT ![p] = NextStage("build_schema")]
        ELSE \* the closure unwinds: no value, Timer::time never stops
             /\ trace' = [trace EXCEPT ![p] =
                    TimerStart(@, "build_schema", p)
                        \o <<Call("build_schema", p, {}),
                             Ev("panic", "build_schema", p, FALSE, {})>>]
             /\ schema' = schema
             /\ pc' = [pc EXCEPT ![p] = "panicked"]
    /\ startedDuring' = [startedDuring EXCEPT ![p] =
           {q \in Projects : pc[q] = "await_generate"}]
    /\ UNCHANGED <<ir, program, programs, artifacts, result, rawBatch,
                   stdout, disk, builtIR>>
    /\ Schedule(p)

\* let BuildIRResult {..} = Timer::time("build_ir ..",
\*     || add_error_sources(build_ir(..), sources))?;
BuildIR(p) ==
    /\ pc[p] = "build_ir"
    /\ \E r \in BuildIROutcomes :
        /\ trace' = [trace EXCEPT ![p] =
               TimerTime(@, "build_ir", p,
                   <<Call("build_ir", p, {}), Ret("build_ir", p, r.ok, {})>>)]
        /\ builtIR' = IF r.ok THEN [builtIR EXCEPT ![p] = r.val] ELSE builtIR
        /\ rawBatch' = IF r.ok THEN rawBatch
                       ELSE [rawBatch EXCEPT ![p] = r.err]
        /\ LET res == add_error_sources(r, Sources)
           IN /\ ir' = IF res.ok THEN [ir EXCEPT ![p] = res.val] ELSE ir
              /\ Try(p, "build_ir", res)
    /\ UNCHANGED <<schema, program, programs, artifacts, stdout, disk,
                   startedDuring>>
    /\ Schedule(p)

\* let program = Timer::time("build_program ..",
\*     || Program::from_definitions(&schema, ir));
BuildProgram(p) ==
    /\ pc[p] = "build_program"
    /\ trace' = [trace EXCEPT ![p] =
           TimerTime(@, "build_program", p,
               <<Call("build_program", p, {}),
                 Ret("build_program", p, TRUE, {})>>)]
    /\ program' = [program EXCEPT ![p] = from_definitions(schema[p], ir[p].ir)]
    /\ pc' = [pc EXCEPT ![p] = NextStage("build_program")]
    /\ UNCHANGED <<schema, ir, programs, artifacts, result, rawBatch,
                   stdout, disk, builtIR,
                   startedDuring>>
    /\ Schedule(p)

\* Timer::time("validate ..",
\*     || add_error_sources(validate(&program), sources))?;
Validate(p) ==
    /\ pc[p] = "validate"
    /\ \E r \in ValidateOutcomes(program[p]) :
        /\ trace' = [trace EXCEPT ![p] =
               TimerTime(@, "validate", p,
                   <<Call("validate", p, {}), Ret("validate", p, r.ok, {})>>)]
        /\ rawBatch' = IF r.ok THEN rawBatch
                       ELSE [rawBatch EXCEPT ![p] = r.err]
        /\ Try(p, "validate", add_error_sources(r, Sources))
    /\ UNCHANGED <<schema, ir, program, programs, artifacts, stdout, disk, builtIR,
                   startedDuring>>
    /\ Schedule(p)

\* let programs = Timer::time("apply_transforms ..",
\*     || apply_transforms(&program, &base_fragment_names));
ApplyTransforms(p) ==
    /\ pc[p] = "apply_transforms"
    /\ trace' = [trace EXCEPT ![p] =
           TimerTime(@, "apply_transforms", p,
               <<Call("apply_transforms", p, {}),
                 Ret("apply_transforms", p, TRUE, {})>>)]
    /\ programs' = [programs EXCEPT ![p] =
           apply_transforms(program[p], ir[p].base_fragment_names)]
    /\ pc' = [pc EXCEPT ![p] = NextStage("apply_transforms")]
    /\ UNCHANGED <<schema, ir, program, artifacts, result, rawBatch,
                   stdout, disk, builtIR,
                   startedDuring>>
    /\ Schedule(p)

\* let artifacts_timer = Timer::start("generate_artifacts ..");
\* generate_artifacts(project_config, &programs)   -- suspends at .await
GenerateStart(p) ==
    /\ pc[p] = "generate_artifacts"
    /\ trace' = [trace EXCEPT ![p] =
           Append(TimerStart(@, "generate_artifacts", p),
                  Call("generate_artifacts", p, {}))]
    /\ pc' = [pc EXCEPT ![p] = "await_generate"]
    /\ UNCHANGED <<schema, ir, program, programs, artifacts, result,
                   rawBatch, stdout, disk,
                   builtIR, startedDuring>>
    /\ Schedule(p)

\* Mutant: generation persists the artifacts it produces.
GenerateResumeWritesDisk(p) ==
    /\ pc[p] = "await_generate"
    /\ \E r \in GenerateOutcomes(p, programs[p]) :
        /\ trace' = [trace EXCEPT ![p] =
               IF r.ok
               THEN TimerStop(
                        Append(@, Ret("generate_artifacts", p, TRUE, r.val)),
                        "generate_artifacts", p)
               ELSE Append(@, Ret("generate_artifacts", p, FALSE, {}))]
        /\ artifacts' = IF r.ok THEN [artifacts EXCEPT ![p] = r.val]
                        ELSE artifacts
        /\ disk' = IF r.ok THEN disk \cup r.val ELSE disk
        /\ Try(p, "generate_artifacts", r)
    /\ UNCHANGED <<schema, ir, program, programs, rawBatch, stdout, builtIR,
                   startedDuring>>
    /\ Schedule(p)

\* Mutant: artifacts_timer.stop() is left out.
GenerateResumeNoStop(p) ==
    /\ pc[p] = "await_generate"
    /\ \E r \in GenerateOutcomes(p, programs[p]) :
        /\ trace' = [trace EXCEPT ![p] =
               IF r.ok
               THEN Append(@, Ret("generate_artifacts", p, TRUE, r.val))
               ELSE Append(@, Ret("generate_artifacts", p, FALSE, {}))]
        /\ artifacts' = IF r.ok THEN [artifacts EXCEPT ![p] = r.val]
                        ELSE artifacts
        /\ Try(p, "generate_artifacts", r)
    /\ UNCHANGED <<schema, ir, program, programs, rawBatch, stdout, disk,
                   builtIR, startedDuring>>
    /\ Schedule(p)

\* let artifacts = <the future completes>?;  artifacts_timer.stop();
GenerateResume(p) ==
    /\ pc[p] = "await_generate"
    /\ \E r \in GenerateOutcomes(p, programs[p]) :
        /\ trace' = [trace EXCEPT ![p] =
               IF r.ok
               THEN TimerStop(
                        Append(@, Ret("generate_artifacts", p, TRUE, r.val)),
                        "generate_artifacts", p)
               ELSE Append(@, Ret("generate_artifacts", p, FALSE, {}))]
        /\ artifacts' = IF r.ok THEN [artifacts EXCEPT ![p] = r.val]
                        ELSE artifacts
        /\ Try(p, "generate_artifacts", r)
    /\ UNCHANGED <<schema, ir, program, programs, rawBatch, stdout, disk,
                   builtIR, startedDuring>>
    /\ Schedule(p)

\* Timer::time("write_artifacts ..",
\*     || write_artifacts(config, project_config, &artifacts))?;
WriteArtifacts(p) ==
    /\ pc[p] = "write_artifacts"
    /\ \E w \in WriteOutcomes(artifacts[p]) :
        /\ trace' = [trace EXCEPT ![p] =
               TimerTime(@, "write_artifacts", p,
                   <<Call("write_artifacts", p, artifacts[p]),
                     Ret("write_artifacts", p, w.res.ok, {})>>)]
        /\ disk' = disk \cup w.written
        /\ Try(p, "write_artifacts", w.res)
    /\ UNCHANGED <<schema, ir, program, programs, artifacts, rawBatch,
                   stdout, builtIR, startedDuring>>
    /\ Schedule(p)

\* The summary line println! prints.
SummaryLine(p, progs) ==
    <<p, document_count(progs.reader), document_count(progs.normalization),
      document_count(progs.operation_text)>>

\* println!("[{}] documents: ..", ..);  Ok(())
Finish(p) ==
    /\ pc[p] = "println"
    /\ stdout' = Append(stdout, SummaryLine(p, programs[p]))
    /\ trace' = [trace EXCEPT ![p] =
           Append(@, Ev("println", "println", p, TRUE, {}))]
    /\ result' = [result EXCEPT ![p] = Ok(Unit)]
    /\ pc' = [pc EXCEPT ![p] = "returned"]
    /\ UNCHANGED <<schema, ir, program, programs, artifacts, rawBatch, disk,
                   builtIR, startedDuring>>
    /\ Schedule(p)

Next ==
    \E p \in Projects :
        \/ BuildSchema(p)
        \/ BuildIR(p)
        \/ BuildProgram(p)
        \/ Validate(p)
        \/ ApplyTransforms(p)
        \/ GenerateStart(p)
        \/ GenerateResume(p)
        \/ WriteArtifacts(p)
        \/ Finish(p)

Spec == Init /\ [][Next]_vars

\* The same builds polled by a single-threaded cooperative executor.
SpecCooperative == InitCooperative /\ [][Next]_vars

\* Any step of one project's build.
Build(p) ==
    \/ BuildSchema(p)
    \/ BuildIR(p)
    \/ BuildProgram(p)
    \/ Validate(p)
    \/ ApplyTransforms(p)
    \/ GenerateStart(p)
    \/ GenerateResume(p)
    \/ WriteArtifacts(p)
    \/ Finish(p)

\* The executor keeps polling every build that can step, and the external
\* work generation waits on completes.
Fairness == \A p \in Projects : WF_vars(Build(p))

SpecFair == Spec /\ Fairness

\* ----------------------------------------------------------- observations
StageOrder ==
    <<"build_schema", "build_ir", "build_program", "validate",
      "apply_transforms", "generate_artifacts", "write_artifacts">>

IsStageEvent(e) == e.ev \in {"call", "ret", "panic"}

\* The calls, returns and panics of a build, without the span events.
StageEvents(p) == SelectSeq(trace[p], IsStageEvent)

Called(p, stage) ==
    \E i \in DOMAIN trace[p] :
        trace[p][i].ev = "call" /\ trace[p][i].stage = stage

Failed(p, stage) ==
    \E i \in DOMAIN trace[p] :
        trace[p][i].ev = "ret" /\ trace[p][i].stage = stage /\ ~trace[p][i].ok

Panicked(p, stage) ==
    \E i \in DOMAIN trace[p] :
        trace[p][i].ev = "panic" /\ trace[p][i].stage = stage

ReturnedErr(p) == pc[p] = "returned" /\ ~result[p].ok
ReturnedOk(p) == pc[p] = "returned" /\ result[p].ok

\* The stage whose Err a failed build returned.
FailedStage(p) == CHOOSE s \in DOMAIN StageOrder : Failed(p, StageOrder[s])

\* The spans that were started and not stopped.
OpenSpans(p) ==
    {trace[p][i].stage : i \in {j \in DOMAIN trace[p] :
        /\ trace[p][j].ev = "start"
        /\ ~\E k \in DOMAIN trace[p] :
              /\ k > j
              /\ trace[p][k].ev = "stop"
              /\ trace[p][k].stage = trace[p][j].stage}}

\* ------------------------------------------------------------------ claims

\* C1: write_artifacts is called only after generate_artifacts returned Ok
\* for the project, never in a build whose generation failed, and with
\* exactly the artifact set the generator returned.
C1_WriteOnlyAfterGeneration ==
    \A p \in Projects :
        /\ Failed(p, "generate_artifacts") => ~Called(p, "write_artifacts")
        /\ \A i \in DOMAIN trace[p] :
              (trace[p][i].ev = "call" /\ trace[p][i].stage = "write_artifacts")
              => \E j \in 1..(i - 1) :
                    trace[p][j] =
                        Ret("generate_artifacts", p, TRUE, trace[p][i].data)

C1_Witness ==
    \E p, q \in Projects :
        /\ Failed(p, "generate_artifacts") /\ pc[p] = "returned"
        /\ \E i \in DOMAIN trace[q] :
              /\ trace[q][i].ev = "call"
              /\ trace[q][i].stage = "write_artifacts"
              /\ Cardinality(trace[q][i].data) = MaxDefs

\* C2: the stages are called in the fixed order of StageOrder, each one
\* after the previous stage has returned, and none out of order.
C2_FixedStageOrder ==
    \A p \in Projects :
        LET se == StageEvents(p)
        IN /\ Len(se) <= 2 * Len(StageOrder)
           /\ \A i \in DOMAIN se :
                 /\ se[i].stage = StageOrder[(i + 1) \div 2]
                 /\ (i % 2 = 1) => se[i].ev = "call"
                 /\ (i % 2 = 0) => se[i].ev \in {"ret", "panic"}
                 /\ (i % 2 = 1 /\ i > 1) => se[i - 1].ev = "ret"

C2_Witness ==
    \E p \in Projects :
        /\ Len(StageEvents(p)) = 2 * Len(StageOrder)
        /\ ReturnedOk(p)

\* C3: once build_ir, validate, generate_artifacts or write_artifacts has
\* failed, build_project returns a failure and no later stage is called
\* and no summary is printed.
C3_NoStageAfterFailure ==
    \A p \in Projects :
        \A i \in DOMAIN trace[p] :
            (trace[p][i].ev = "ret" /\ ~trace[p][i].ok)
            => /\ ReturnedErr(p)
               /\ \A j \in DOMAIN trace[p] :
                     j > i => trace[p][j].ev \notin {"call", "println"}
               /\ trace[p][i].stage = "build_ir"
                     => /\ ~Called(p, "build_program")
                        /\ ~Called(p, "validate")
                        /\ ~Called(p, "apply_transforms")
                        /\ ~Called(p, "generate_artifacts")
                        /\ artifacts[p] = {}

C3_Witness ==
    \E p, q \in Projects :
        /\ Failed(p, "build_ir") /\ ReturnedErr(p)
        /\ Failed(q, "write_artifacts") /\ ReturnedErr(q)

\* C4: when validate returns a non-empty batch, the build fails at the
\* validation stage with that batch and apply_transforms,
\* generate_artifacts and write_artifacts are never called.
C4_ValidationFailureStopsBuild ==
    \A p \in Projects :
        Failed(p, "validate")
        => /\ ReturnedErr(p)
           /\ result[p].err.kind = "ValidationErrors"
           /\ result[p].err.errors # <<>>
           /\ ~Called(p, "apply_transforms")
           /\ ~Called(p, "generate_artifacts")
           /\ ~Called(p, "write_artifacts")

C4_Witness ==
    \E p \in Projects :
        /\ Failed(p, "validate")
        /\ Len(rawBatch[p]) = MaxBatch
        /\ pc[p] = "returned"

\* C5 (as claimed): whenever build_project has returned, with success or
\* with a failure at any stage, every span it started has been stopped.
C5_SpansStoppedOnEveryReturn ==
    \A p \in Projects : pc[p] = "returned" => OpenSpans(p) = {}

\* C6 (as claimed): when the schema builder fails, build_project returns a
\* SchemaBuildError failure and no later stage is called.
C6_SchemaFailureReturned ==
    \A p \in Projects :
        Panicked(p, "build_schema")
        => /\ ReturnedErr(p)
           /\ result[p].err.kind = "SchemaBuildError"
           /\ ~Called(p, "build_ir")

\* C7 (as claimed): two failed builds that return the same error failed at
\* the same stage, so the failing stage can be read off the outcome.
C7_StageIdentifiable ==
    \A p, q \in Projects :
        (ReturnedErr(p) /\ ReturnedErr(q) /\ result[p] = result[q])
        => FailedStage(p) = FailedStage(q)

\* The variant of BuildProjectError each failing stage is reported as.
ErrorKindOf(stage) ==
    CASE stage \in {"build_ir", "validate"} -> "ValidationErrors"
      [] stage = "generate_artifacts" -> "ArtifactGenerationError"
      [] stage = "write_artifacts" -> "ArtifactWriteError"

\* C7 (amended): a failed build returns one error whose variant tells the
\* failing stage up to the pair build_ir / validate: both are returned as
\* ValidationErrors, generation and write failures as their own variants.
C7_CategoryIdentifiable ==
    /\ \A p \in Projects :
          ReturnedErr(p)
          => result[p].err.kind = ErrorKindOf(StageOrder[FailedStage(p)])
    /\ \A p, q \in Projects :
          (ReturnedErr(p) /\ ReturnedErr(q) /\ result[p] = result[q])
          => ErrorKindOf(StageOrder[FailedStage(p)])
                = ErrorKindOf(StageOrder[FailedStage(q)])

C7_Witness ==
    \E p, q \in Projects :
        /\ ReturnedErr(p) /\ ReturnedErr(q)
        /\ Failed(p, "build_ir") /\ Failed(q, "validate")
        /\ result[p] = result[q]

\* An error is source-resolved when it carries the literal text its
\* abstract location refers to.
Resolved(e) ==
    /\ "source" \in DOMAIN e
    /\ e.source = Sources[e.error.location]

\* C8: every error of a returned ValidationErrors batch is source-resolved,
\* at every position of the batch.
C8_ReturnedErrorsResolved ==
    \A p \in Projects :
        (ReturnedErr(p) /\ result[p].err.kind = "ValidationErrors")
        => \A i \in DOMAIN result[p].err.errors :
              Resolved(result[p].err.errors[i])

C8_Witness ==
    \E p, q \in Projects :
        /\ ReturnedErr(p) /\ Failed(p, "build_ir")
        /\ ReturnedErr(q) /\ Failed(q, "validate")
        /\ Len(result[p].err.errors) = MaxBatch
        /\ Len(result[q].err.errors) = 1

\* The number of failed stage returns of a build.
FailureCount(p) ==
    Cardinality({i \in DOMAIN trace[p] :
        trace[p][i].ev = "ret" /\ ~trace[p][i].ok})

\* C9: the failure returned for a batch of k errors holds exactly those k
\* errors in the order the stage produced them, and the build fails once.
C9_BatchReportedWhole ==
    \A p \in Projects :
        (ReturnedErr(p) /\ result[p].err.kind = "ValidationErrors")
        => /\ Len(result[p].err.errors) = Len(rawBatch[p])
           /\ \A i \in DOMAIN rawBatch[p] :
                 /\ "error" \in DOMAIN result[p].err.errors[i]
                 /\ result[p].err.errors[i].error = rawBatch[p][i]
           /\ FailureCount(p) = 1

C9_Witness ==
    \E p \in Projects :
        /\ ReturnedErr(p)
        /\ result[p].err.kind = "ValidationErrors"
        /\ Len(rawBatch[p]) = MaxBatch
        /\ rawBatch[p][1] # rawBatch[p][MaxBatch]

\* The summary lines printed for a project.
SummaryLines(p) == SelectSeq(stdout, LAMBDA line : line[1] = p)

\* C10: the summary line of a project is printed once if the build
\* returned Ok and never otherwise; it is printed after write_artifacts
\* returned Ok, as the last event of the build, and reports the three
\* document counts.
C10_SummaryOnlyOnSuccess ==
    \A p \in Projects :
        /\ Len(SummaryLines(p)) = IF ReturnedOk(p) THEN 1 ELSE 0
        /\ ReturnedErr(p) => SummaryLines(p) = <<>>
        /\ \A i \in DOMAIN trace[p] :
              trace[p][i].ev = "println"
              => /\ i = Len(trace[p])
                 /\ \E j \in 1..(i - 1) :
                       trace[p][j] = Ret("write_artifacts", p, TRUE, {})
        /\ ReturnedOk(p)
              => SummaryLines(p) = <<SummaryLine(p, programs[p])>>

C10_Witness ==
    \E p, q \in Projects :
        /\ ReturnedOk(p) /\ Len(SummaryLines(p)) = 1
        /\ SummaryLines(p)[1][2] = MaxDefs
        /\ Failed(q, "write_artifacts") /\ ReturnedErr(q)
        /\ SummaryLines(q) = <<>>

\* ---------------------------------------------------- further observations
Terminal(p) == pc[p] \in {"returned", "panicked"}

\* How many times a stage was called in a build.
CallCount(p, stage) ==
    Cardinality({i \in DOMAIN trace[p] :
        trace[p][i].ev = "call" /\ trace[p][i].stage = stage})

\* How many times a stage returned Ok in a build.
OkCount(p, stage) ==
    Cardinality({i \in DOMAIN trace[p] :
        trace[p][i].ev = "ret" /\ trace[p][i].stage = stage
            /\ trace[p][i].ok})

\* The files of a project that durable storage holds.
FilesOf(p) == {f \in disk : f.project = p}

\* Everything that belongs to one project's build: its position, locals,
\* return value, events, files and summary lines.
Local(p) ==
    <<pc[p], schema[p], ir[p], program[p], programs[p], artifacts[p],
      result[p], rawBatch[p], builtIR[p], trace[p], FilesOf(p),
      SummaryLines(p)>>

\* Some stage of the build failed or panicked.
AnyFailure(p) == FailureCount(p) > 0 \/ Panicked(p, "build_schema")

\* The stages of the span events of one kind, in order.
SpanStages(p, kind) ==
    LET spanEvents == SelectSeq(trace[p], LAMBDA e : e.ev = kind)
    IN [i \in DOMAIN spanEvents |-> spanEvents[i].stage]

\* The stages called in a build, in order.
CalledStages(p) ==
    LET calls == SelectSeq(trace[p], LAMBDA e : e.ev = "call")
    IN [i \in DOMAIN calls |-> calls[i].stage]

\* The positions inside the two synchronous blocks of build_project.
MidBlock ==
    {"build_ir", "build_program", "validate", "apply_transforms",
     "generate_artifacts", "write_artifacts", "println"}

\* ---------------------------------------------------------- further claims

\* C11: no stage is called twice in a build, a failed stage is the end of
\* the build, the build holds at most one failure, and a build that has
\* ended never changes again.
C11_NoRetry ==
    /\ [](\A p \in Projects :
            /\ \A s \in DOMAIN StageOrder : CallCount(p, StageOrder[s]) <= 1
            /\ FailureCount(p) <= 1
            /\ FailureCount(p) = 1 => ReturnedErr(p))
    /\ [][\A p \in Projects : Terminal(p) => Local(p)' = Local(p)]_vars

C11_Witness ==
    \E p, q \in Projects :
        /\ Failed(p, "validate") /\ ReturnedErr(p)
        /\ CallCount(p, "validate") = 1
        /\ Failed(q, "generate_artifacts") /\ ReturnedErr(q)
        /\ CallCount(q, "generate_artifacts") = 1

\* C12: a step of one project's build leaves everything that belongs to
\* the other project's build unchanged, under any interleaving, so a
\* build's calls and outcome are those of the build run alone and a
\* failure of one build does not reach the other.
C12_NoInterference ==
    [][\A p, q \in Projects :
          p # q => (Local(p)' = Local(p) \/ Local(q)' = Local(q))]_vars

C12_Witness ==
    \E p, q \in Projects :
        /\ p # q
        /\ p \in startedDuring[q]
        /\ ReturnedErr(p)
        /\ ReturnedOk(q)

\* C13: while a build is suspended in generate_artifacts, every other
\* build that has not ended can take its next step.
C13_SuspensionDoesNotBlock ==
    \A p, q \in Projects :
        (p # q /\ pc[p] = "await_generate" /\ ~Terminal(q))
        => ENABLED Build(q)

\* A build ran from its first stage to Ok while the other stayed suspended.
C13_Witness ==
    \E p, q \in Projects :
        /\ p # q
        /\ pc[p] = "await_generate"
        /\ p \in startedDuring[q]
        /\ ReturnedOk(q)
        /\ running = "idle"

\* C14: every build eventually either has a failed stage or has called
\* write_artifacts and returned Ok.
C14_SuccessTerminates ==
    \A p \in Projects :
        <>(AnyFailure(p) \/ (ReturnedOk(p) /\ Called(p, "write_artifacts")))

C14_Witness ==
    \A p \in Projects :
        /\ ReturnedOk(p)
        /\ Called(p, "write_artifacts")
        /\ ~AnyFailure(p)

\* C15: the files of a project on durable storage differ from those before
\* the build only once write_artifacts was called; a build that failed
\* before the write left them as they were, and new files are among the
\* artifacts passed to the writer.
C15_OnlyWriteTouchesDisk ==
    \A p \in Projects :
        LET before == {f \in PreExisting : f.project = p}
        IN /\ before \subseteq FilesOf(p)
           /\ ~Called(p, "write_artifacts") => FilesOf(p) = before
           /\ (ReturnedErr(p) /\ ~Failed(p, "write_artifacts"))
                 => FilesOf(p) = before
           /\ pc[p] = "panicked" => FilesOf(p) = before
           /\ FilesOf(p) \ before \subseteq artifacts[p]

\* A failed write left a partial set of files, a failed generation none.
C15_Witness ==
    \E p, q \in Projects :
        /\ Failed(p, "write_artifacts")
        /\ FilesOf(p) \ PreExisting # {}
        /\ FilesOf(p) \ PreExisting # artifacts[p]
        /\ Failed(q, "generate_artifacts")
        /\ FilesOf(q) \subseteq PreExisting

\* C16 (as claimed): a build that returned has emitted exactly one span for
\* each stage it executed, in call order; seven in StageOrder when it
\* returned Ok.
C16_OneSpanPerExecutedStage ==
    \A p \in Projects :
        pc[p] = "returned"
        => /\ SpanStages(p, "stop") = CalledStages(p)
           /\ SpanStages(p, "start") = CalledStages(p)
           /\ ReturnedOk(p) => SpanStages(p, "stop") = StageOrder
           /\ \A i \in DOMAIN trace[p] : trace[p][i].project = p

\* C17: in one build every span that is started is stopped before the
\* next span is started, so at most one span is open.
C17_SpansDoNotOverlap ==
    \A p \in Projects :
        /\ Cardinality(OpenSpans(p)) <= 1
        /\ \A i, j \in DOMAIN trace[p] :
              (i < j /\ trace[p][i].ev = "start" /\ trace[p][j].ev = "start")
              => \E k \in (i + 1)..(j - 1) :
                    /\ trace[p][k].ev = "stop"
                    /\ trace[p][k].stage = trace[p][i].stage

\* The generation span is open across the suspension; the span of the
\* write was started after it was stopped.
C17_Witness ==
    \E p, q \in Projects :
        /\ pc[p] = "await_generate"
        /\ OpenSpans(p) = {"generate_artifacts"}
        /\ Called(q, "write_artifacts")

\* C18: on one cooperative thread, while a build is inside one of its two
\* synchronous blocks no other build takes a step.
C18_OnlyGenerationSuspends ==
    [][\A p, q \in Projects :
          (p # q /\ pc[p] \in MidBlock) => Local(q)' = Local(q)]_vars

\* A build is inside its first block while the other is suspended in
\* generation, and one is inside its second block likewise.
C18_Witness ==
    \E p, q \in Projects :
        /\ pc[p] = "write_artifacts"
        /\ pc[q] = "await_generate"
        /\ q \in startedDuring[p]
        /\ running = p

\* C19: a build that returned Ok called each of the seven stages once,
\* every one of them returned Ok, and none failed.
C19_OkOnlyAfterAllStages ==
    \A p \in Projects :
        ReturnedOk(p)
        => /\ \A s \in DOMAIN StageOrder :
                 /\ CallCount(p, StageOrder[s]) = 1
                 /\ OkCount(p, StageOrder[s]) = 1
           /\ ~AnyFailure(p)
           /\ CalledStages(p) = StageOrder

C19_Witness ==
    \E p, q \in Projects :
        /\ ReturnedOk(p)
        /\ OkCount(p, "write_artifacts") = 1
        /\ pc[q] = "panicked"

\* C20: the value build_ir returned Ok reaches the driver unchanged; only
\* failures of build_ir and validate are returned as ValidationErrors;
\* the errors of generate_artifacts and write_artifacts are returned as
\* the stage produced them, with nothing source-resolved.
C20_OnlyErrBatchesConverted ==
    \A p \in Projects :
        /\ OkCount(p, "build_ir") = 1 => ir[p] = builtIR[p]
        /\ (ReturnedErr(p) /\ result[p].err.kind = "ValidationErrors")
              => (Failed(p, "build_ir") \/ Failed(p, "validate"))
        /\ (ReturnedErr(p) /\ Failed(p, "generate_artifacts"))
              => /\ result[p] \in GenerateOutcomes(p, programs[p])
                 /\ result[p].err.errors = <<>>
        /\ (ReturnedErr(p) /\ Failed(p, "write_artifacts"))
              => /\ result[p] \in {w.res : w \in WriteOutcomes(artifacts[p])}
                 /\ result[p].err.errors = <<>>

C20_Witness ==
    \E p, q \in Projects :
        /\ OkCount(p, "build_ir") = 1
        /\ builtIR[p].base_fragment_names # {}
        /\ Cardinality(builtIR[p].ir) = MaxDefs
        /\ Failed(p, "generate_artifacts") /\ ReturnedErr(p)
        /\ Failed(q, "validate") /\ ReturnedErr(q)

====
